---- MODULE Spec2Model ----
(***************************************************************************)
(* Model of server.py: the book object cache (functools.lru_cache around   *)
(* load_book_cached), the catalogue listing, the chapter reader, the image *)
(* path resolver, the chat proxy and the EPUB upload handler.              *)
(*                                                                         *)
(* Strings are sequences of symbols.  "/" and "." are the characters the   *)
(* os.path functions look at; every other symbol ("b", "7", "epub",        *)
(* "_data", ...) is a run of ordinary characters that is never split.      *)
(* A location on disk is a sequence of path components from the            *)
(* filesystem root, each component a string.                               *)
(***************************************************************************)
EXTENDS Integers, Sequences, FiniteSets, TLC

\* ------------------------------------------------------------ bounds
\* Requests accepted in one behaviour.
MaxOps == 3
\* Largest number of book folders under the store root at start-up.
NumBooks == 11
\* Uploads accepted (begun with a temporary file) in one behaviour.
MaxUploads == 1
\* Longest spine of a book.
MaxSpine == 3
\* Longest untrusted string handed to serve_image.
MaxLen == 3

\* ------------------------------------------------------------ program constants
\* @lru_cache(maxsize=10)
maxsize == 10

\* ------------------------------------------------------------ strings
SEP == "/"
DOT == "."

Last(s) == s[Len(s)]

RECURSIVE SeqOfLen(_, _)
SeqOfLen(S, n) ==
    IF n = 0 THEN {<<>>}
    ELSE {Append(s, x) : s \in SeqOfLen(S, n - 1), x \in S}

StringsUpTo(S, n) == UNION {SeqOfLen(S, k) : k \in 0..n}

\* str.endswith
endswith(s, suffix) ==
    /\ Len(s) >= Len(suffix)
    /\ SubSeq(s, Len(s) - Len(suffix) + 1, Len(s)) = suffix

\* str.startswith
startswith(s, prefix) ==
    /\ Len(s) >= Len(prefix)
    /\ SubSeq(s, 1, Len(prefix)) = prefix

\* str.rfind(ch), as a 1-based position; 0 when ch does not occur.
rfind(s, ch) ==
    LET hits == {i \in 1..Len(s) : s[i] = ch}
    IN  IF hits = {} THEN 0 ELSE CHOOSE i \in hits : \A j \in hits : j <= i

\* posixpath.basename: everything after the last separator.
basename(p) == SubSeq(p, rfind(p, SEP) + 1, Len(p))

\* posixpath.splitext(p)[0]: the extension starts at the last dot that follows
\* the last separator, unless only dots precede it in that component.
splitext_root(p) ==
    LET sepIndex == rfind(p, SEP)
        dotIndex == rfind(p, DOT)
    IN  IF /\ dotIndex > sepIndex
           /\ \E k \in (sepIndex + 1)..(dotIndex - 1) : p[k] # DOT
        THEN SubSeq(p, 1, dotIndex - 1)
        ELSE p

\* posixpath.join of two parts.
join2(a, b) ==
    IF startswith(b, <<SEP>>) THEN b
    ELSE IF a = <<>> \/ Last(a) = SEP THEN a \o b
    ELSE a \o <<SEP>> \o b

\* posixpath.join of a sequence of parts.
RECURSIVE join(_)
join(parts) ==
    IF Len(parts) = 1 THEN parts[1]
    ELSE join(<<join2(parts[1], parts[2])>> \o SubSeq(parts, 3, Len(parts)))

\* The components of a path string, split at the separators.
RECURSIVE components(_)
components(p) ==
    IF p = <<>> THEN <<<<>>>>
    ELSE LET rest == components(Tail(p))
         IN  IF Head(p) = SEP THEN <<<<>>>> \o rest
             ELSE <<<<Head(p)>> \o rest[1]>> \o Tail(rest)

IsPrefix(a, b) == Len(a) <= Len(b) /\ \A i \in 1..Len(a) : a[i] = b[i]

\* ------------------------------------------------------------ values
None == [kind |-> "None", title |-> <<>>, authors |-> <<>>, spine |-> <<>>]

\* reader3.Book: metadata.title, metadata.authors and the spine, whose i-th
\* chapter is identified by the book's title and its position.
Book(title, authors, n) ==
    [kind |-> "Book", title |-> title, authors |-> authors,
     spine |-> [i \in 1..n |-> <<title, i - 1>>]]

\* A book.pkl that pickle.load cannot read.
CorruptPickle == [kind |-> "corrupt", title |-> <<>>, authors |-> <<>>, spine |-> <<>>]
\* A book folder without a book.pkl.
NoPickle == [kind |-> "nofile", title |-> <<>>, authors |-> <<>>, spine |-> <<>>]

\* Python truthiness of an Optional[Book]: a Book instance is truthy, None is not.
truthy(book) == book.kind = "Book"

\* An absent index (Python None) is the empty set, a present one a singleton.
NoIndex == {}
Some(i) == {i}

\* ------------------------------------------------------------ configuration
\* BOOKS_DIR = os.getenv("BOOKS_DIR", "."), here the volume mount "/data".
BOOKS_DIR == <<SEP, "data">>
BooksLoc == <<<<"data">>>>
\* The working directory of the process, where relative paths start.
CwdLoc == <<<<"app">>>>

DATA == "_data"
EPUB == "epub"
PKL == "book.pkl"
IMAGES == "images"

\* ------------------------------------------------------------ filesystem
\* fs maps the location of every book folder to the state of its book.pkl.
Parent(loc) == IF loc = <<>> THEN <<>> ELSE SubSeq(loc, 1, Len(loc) - 1)

isdir(fsx, loc) ==
    \/ loc \in DOMAIN fsx
    \/ IsPrefix(loc, BooksLoc)
    \/ IsPrefix(loc, CwdLoc)
    \/ \E d \in DOMAIN fsx : IsPrefix(loc, d)

\* Resolution of a directory path by the operating system: every component
\* walked through has to be an existing directory.
RECURSIVE walk(_, _, _)
walk(fsx, at, comps) ==
    IF comps = <<>> THEN [ok |-> TRUE, loc |-> at]
    ELSE LET c == Head(comps)
         IN  IF c = <<>> \/ c = <<DOT>> THEN walk(fsx, at, Tail(comps))
             ELSE IF c = <<DOT, DOT>> THEN walk(fsx, Parent(at), Tail(comps))
             ELSE IF isdir(fsx, Append(at, c)) THEN walk(fsx, Append(at, c), Tail(comps))
             ELSE [ok |-> FALSE, loc |-> <<>>]

resolve_dir(fsx, p) ==
    walk(fsx, IF startswith(p, <<SEP>>) THEN <<>> ELSE CwdLoc, components(p))

\* The location a path names once "", "." and ".." are resolved, whether or
\* not it exists yet (os.makedirs creates what is missing on the way).
RECURSIVE normalize(_, _)
normalize(at, comps) ==
    IF comps = <<>> THEN at
    ELSE LET c == Head(comps)
         IN  IF c = <<>> \/ c = <<DOT>> THEN normalize(at, Tail(comps))
             ELSE IF c = <<DOT, DOT>> THEN normalize(Parent(at), Tail(comps))
             ELSE normalize(Append(at, c), Tail(comps))

location(p) == normalize(IF startswith(p, <<SEP>>) THEN <<>> ELSE CwdLoc, components(p))

\* The state of the file a path names: NoPickle when there is no such file
\* (the only files of the model are the book.pkl of the book folders).
pickle_at(fsx, file_path) ==
    LET comps == components(file_path)
        dir == walk(fsx, IF startswith(file_path, <<SEP>>) THEN <<>> ELSE CwdLoc,
                    SubSeq(comps, 1, Len(comps) - 1))
    IN  IF dir.ok /\ Last(comps) = <<PKL>> /\ dir.loc \in DOMAIN fsx
        THEN fsx[dir.loc]
        ELSE NoPickle

\* The plain files of the store root: one whose name ends like a book folder's.
RootFiles == {<<"notes", DATA>>}

\* os.listdir(BOOKS_DIR), as the set of names in it: the directories and the
\* plain files.
listdir(fsx) ==
    {d[Len(BooksLoc) + 1] : d \in {e \in DOMAIN fsx :
                                      IsPrefix(BooksLoc, e) /\ Len(e) > Len(BooksLoc)}}
        \cup RootFiles

\* ------------------------------------------------------------ load_book_cached
\* The body of load_book_cached: the value one call computes from the disk.
load_book(fsx, folder_name) ==
    LET file_path == join(<<BOOKS_DIR, folder_name, <<PKL>>>>)
        art == pickle_at(fsx, file_path)
    IN  IF art.kind = "nofile" THEN None
        ELSE IF art.kind = "Book" THEN art
        ELSE None

\* The lru_cache wrapper keeps (key, result) links from least to most recently
\* used.  A hit moves the link to the most-recent end.
keys_of(c) == {c[i].key : i \in 1..Len(c)}

lru_find_nothing(c, key) == {}

lru_find(c, key) == {i \in 1..Len(c) : c[i].key = key}

lru_touch_in_place(c, i) == c

lru_touch(c, i) ==
    SubSeq(c, 1, i - 1) \o SubSeq(c, i + 1, Len(c)) \o <<c[i]>>

\* A miss stores the result, dropping the oldest link when the cache is full.
lru_evicted(c) == IF Len(c) >= maxsize THEN <<c[1].key>> ELSE <<>>

lru_insert_unbounded(c, key, val) == Append(c, [key |-> key, val |-> val])

lru_insert(c, key, val) ==
    Append(IF Len(c) >= maxsize THEN Tail(c) ELSE c, [key |-> key, val |-> val])

cache_clear_keeps(c) == c

\* load_book_cached.cache_clear()
cache_clear(c) == <<>>

\* One call load_book_cached(folder_name) on the cache st.cache.  st.log is the
\* record of the calls since the last cache_clear (which key, and whether it
\* was answered from the cache), st.evicted the keys dropped since then.
load_book_cached(st, fsx, folder_name) ==
    LET found == lru_find(st.cache, folder_name)
    IN  IF found # {}
        THEN LET i == CHOOSE i \in found : TRUE
             IN  [cache |-> lru_touch(st.cache, i),
                  log |-> Append(st.log, [key |-> folder_name, hit |-> TRUE]),
                  evicted |-> st.evicted,
                  val |-> st.cache[i].val]
        ELSE LET book == load_book(fsx, folder_name)
             IN  [cache |-> lru_insert(st.cache, folder_name, book),
                  log |-> Append(st.log, [key |-> folder_name, hit |-> FALSE]),
                  evicted |-> st.evicted \o lru_evicted(st.cache),
                  val |-> book]

\* ------------------------------------------------------------ state
VARIABLES
    cache,      \* the links of load_book_cached's LRU cache, oldest first
    log,        \* the calls of load_book_cached since the last cache_clear
    evicted,    \* the keys the LRU policy dropped since the last cache_clear
    dropped,    \* the keys the last cache_clear removed
    fs,         \* the book folders on disk and their book.pkl
    tmp_files,  \* the temporary files that exist
    inflight,   \* uploads suspended at `await file.read()`
    resp,       \* the response to the last request that returned
    req,        \* the request that response answers
    reqno,      \* requests accepted so far
    api_key,    \* BLACKBOX_API_KEY
    uploads     \* uploads begun so far

vars == <<cache, log, evicted, dropped, fs, tmp_files, inflight, resp, req, reqno, api_key, uploads>>

cache_state == [cache |-> cache, log |-> log, evicted |-> evicted]

\* ------------------------------------------------------------ inputs
\* The folder of the k-th book present at start-up, "b<k>_data".
numeral == <<"1", "2", "3", "4", "5", "6", "7", "8", "9", "10", "11", "12", "13", "14">>

folder(k) == <<"b", numeral[k], DATA>>

\* What the k-th folder holds at start-up: the second holds a corrupt pickle,
\* the third none, the others a book of 0..MaxSpine chapters.
initial_artifact(k) ==
    IF k = 2 THEN CorruptPickle
    ELSE IF k = 3 THEN NoPickle
    ELSE Book(<<"T", numeral[k]>>, <<"A", "B">>, k % (MaxSpine + 1))

\* A folder of the store root that holds a book.pkl but is not named "*_data".
other_folder == <<"misc">>

initial_fs(n) ==
    (Append(BooksLoc, other_folder) :> Book(<<"M">>, <<"A">>, 1)) @@
    [loc \in {Append(BooksLoc, folder(k)) : k \in 1..n} |->
        LET k == CHOOSE k \in 1..n : loc = Append(BooksLoc, folder(k))
        IN  initial_artifact(k)]

\* Identities asked of the reader: the oldest and newest start-up folders, the
\* corrupt one, one that does not exist until an upload creates it, and the
\* parent-directory name.  (A path parameter of a route holds no separator.)
BookIds == {folder(1), folder(2), folder(NumBooks), <<"n", DATA>>, <<DOT, DOT>>}

ChapterIndexes == {0}

\* File names of uploads: a re-ingestion of the first book, a new book, a
\* name that climbs out of the store, and one without the .epub extension.
FileNames ==
    {<<"b", numeral[1], DOT, EPUB>>, <<"n", DOT, EPUB>>,
     <<DOT, DOT, SEP, "n", DOT, EPUB>>, <<"n", DOT, "txt">>}

\* What process_epub may make of an uploaded file.
Contents == {Book(<<"N", "1">>, <<"A">>, 2), Book(<<"N", "2">>, <<>>, 1)}

\* What a {parameter} of a route path can hold: a non-empty string without a
\* separator (the path is matched after percent-decoding, so "." and ".."
\* are among them).
path_param(s) == s # <<>> /\ rfind(s, SEP) = 0

\* ------------------------------------------------------------ responses
next_seq == resp.seq + 1

HTTPException(op, status_code, detail) ==
    [op |-> op, seq |-> next_seq, status |-> status_code, detail |-> detail]

\* ------------------------------------------------------------ read_chapter
prev_idx_before_first(chapter_index) == Some(chapter_index - 1)

prev_idx(chapter_index) ==
    IF chapter_index > 0 THEN Some(chapter_index - 1) ELSE NoIndex

next_idx_past_end(chapter_index, book) ==
    IF chapter_index < Len(book.spine) THEN Some(chapter_index + 1) ELSE NoIndex

next_idx(chapter_index, book) ==
    IF chapter_index < Len(book.spine) - 1 THEN Some(chapter_index + 1) ELSE NoIndex

read_chapter_index_first(op, book, book_id, chapter_index) ==
    IF chapter_index < 0 \/ chapter_index >= Len(book.spine)
    THEN HTTPException(op, 404, "Chapter not found")
    ELSE IF ~truthy(book)
    THEN HTTPException(op, 404, "Book not found")
    ELSE [op |-> op, seq |-> next_seq, status |-> 200, detail |-> "reader.html",
          book |-> book,
          current_chapter |-> book.spine[chapter_index + 1],
          chapter_index |-> chapter_index,
          book_id |-> book_id,
          prev_idx |-> prev_idx(chapter_index),
          next_idx |-> next_idx(chapter_index, book)]

\* read_chapter after the cache was asked for the book.
read_chapter(op, book, book_id, chapter_index) ==
    IF ~truthy(book)
    THEN HTTPException(op, 404, "Book not found")
    ELSE IF chapter_index < 0 \/ chapter_index >= Len(book.spine)
    THEN HTTPException(op, 404, "Chapter not found")
    ELSE [op |-> op, seq |-> next_seq, status |-> 200, detail |-> "reader.html",
          book |-> book,
          current_chapter |-> book.spine[chapter_index + 1],
          chapter_index |-> chapter_index,
          book_id |-> book_id,
          prev_idx |-> prev_idx(chapter_index),
          next_idx |-> next_idx(chapter_index, book)]

Serve(op, book_id, chapter_index) ==
    LET got == load_book_cached(cache_state, fs, book_id)
    IN  /\ path_param(book_id)
        /\ reqno < MaxOps
        /\ reqno' = reqno + 1
        /\ cache' = got.cache
        /\ log' = got.log
        /\ evicted' = got.evicted
        /\ req' = [op |-> op, book_id |-> book_id, chapter_index |-> chapter_index]
        /\ resp' = read_chapter(op, got.val, book_id, chapter_index)
        /\ UNCHANGED <<dropped, fs, tmp_files, inflight, api_key, uploads>>

ReadChapter(book_id, chapter_index) == Serve("read_chapter", book_id, chapter_index)

\* An exception that leaves the handler: the framework answers 500.
Raised(op, exception) ==
    [op |-> op, seq |-> next_seq, status |-> 500, detail |-> exception]

\* redirect_to_first_chapter calls read_chapter(book_id=..., chapter_index=0)
\* without its required `request` argument: the call raises TypeError before
\* the body of read_chapter runs.
RedirectToFirstChapter(book_id) ==
    /\ path_param(book_id)
    /\ reqno < MaxOps
    /\ reqno' = reqno + 1
    /\ req' = [op |-> "redirect_to_first_chapter", book_id |-> book_id]
    /\ resp' = Raised("redirect_to_first_chapter", "TypeError")
    /\ UNCHANGED <<cache, log, evicted, dropped, fs, tmp_files, inflight, api_key, uploads>>

\* ------------------------------------------------------------ library_view
RECURSIVE join_authors(_)
join_authors(authors) ==
    IF authors = <<>> THEN <<>>
    ELSE IF Len(authors) = 1 THEN <<authors[1]>>
    ELSE <<authors[1], ", ">> \o join_authors(Tail(authors))

\* The loop of library_view over the listed items, in the order listed.
RECURSIVE scan_stop_at_absent(_, _, _, _)
scan_stop_at_absent(st, books, fsx, items) ==
    IF items = <<>> THEN [st |-> st, books |-> books]
    ELSE LET item == Head(items)
             full_path == join(<<BOOKS_DIR, item>>)
         IN  IF endswith(item, <<DATA>>) /\ resolve_dir(fsx, full_path).ok
             THEN LET got == load_book_cached(st, fsx, item)
                      entry == [id |-> item,
                                title |-> got.val.title,
                                author |-> join_authors(got.val.authors),
                                chapters |-> Len(got.val.spine)]
                      st2 == [cache |-> got.cache, log |-> got.log, evicted |-> got.evicted]
                  IN  IF truthy(got.val)
                      THEN scan_stop_at_absent(st2, Append(books, entry), fsx, Tail(items))
                      ELSE [st |-> st2, books |-> books]
             ELSE scan_stop_at_absent(st, books, fsx, Tail(items))

RECURSIVE scan(_, _, _, _)
scan(st, books, fsx, items) ==
    IF items = <<>> THEN [st |-> st, books |-> books]
    ELSE LET item == Head(items)
             full_path == join(<<BOOKS_DIR, item>>)
         IN  IF endswith(item, <<DATA>>) /\ resolve_dir(fsx, full_path).ok
             THEN LET got == load_book_cached(st, fsx, item)
                      entry == [id |-> item,
                                title |-> got.val.title,
                                author |-> join_authors(got.val.authors),
                                chapters |-> Len(got.val.spine)]
                  IN  scan([cache |-> got.cache, log |-> got.log, evicted |-> got.evicted],
                           IF truthy(got.val) THEN Append(books, entry) ELSE books,
                           fsx, Tail(items))
             ELSE scan(st, books, fsx, Tail(items))

\* The names of a directory in the order of the directory: the folders
\* created since start-up, then the start-up folders in the order of their number.
RECURSIVE any_order(_)
any_order(S) ==
    IF S = {} THEN <<>>
    ELSE LET x == CHOOSE x \in S : TRUE IN <<x>> \o any_order(S \ {x})

enumerate(S) ==
    LET start_up == [k \in 1..NumBooks |-> folder(k)]
    IN  any_order(S \ {start_up[k] : k \in 1..NumBooks})
            \o SelectSeq(start_up, LAMBDA name : name \in S)

reversed(s) == [i \in 1..Len(s) |-> s[Len(s) + 1 - i]]

\* os.listdir returns the names in an order of the filesystem's choosing; two
\* such orders are explored.
listdir_orders(fsx) == {enumerate(listdir(fsx)), reversed(enumerate(listdir(fsx)))}

LibraryView(items) ==
    LET r == scan(cache_state, <<>>, fs, items)
    IN  /\ reqno < MaxOps
        /\ reqno' = reqno + 1
        /\ cache' = r.st.cache
        /\ log' = r.st.log
        /\ evicted' = r.st.evicted
        /\ req' = [op |-> "library_view", listdir |-> items]
        /\ resp' = [op |-> "library_view", seq |-> next_seq, status |-> 200,
                    detail |-> "library.html", books |-> r.books]
        /\ UNCHANGED <<dropped, fs, tmp_files, inflight, api_key, uploads>>

\* ------------------------------------------------------------ serve_image
img_path(book_id, image_name) ==
    join(<<BOOKS_DIR, basename(book_id), <<IMAGES>>, basename(image_name)>>)

\* Whether the image file exists is the filesystem's answer, an input here.
ServeImage(book_id, image_name, exists) ==
    /\ path_param(book_id) /\ path_param(image_name)
    /\ reqno < MaxOps
    /\ reqno' = reqno + 1
    /\ req' = [op |-> "serve_image", book_id |-> book_id, image_name |-> image_name]
    /\ resp' = IF ~exists
               THEN HTTPException("serve_image", 404, "Image not found")
               ELSE [op |-> "serve_image", seq |-> next_seq, status |-> 200,
                     detail |-> "FileResponse",
                     path |-> img_path(book_id, image_name)]
    /\ UNCHANGED <<cache, log, evicted, dropped, fs, tmp_files, inflight, api_key, uploads>>

\* ------------------------------------------------------------ chat
\* Shapes of the Completion API's answer: the expected one, a body without
\* "choices", an empty "choices", a first choice without "message", a body
\* that is a JSON array, a body that is not JSON, and no answer at all.
ApiResults == {"content", "no_choices", "empty_choices", "no_message",
               "json_array", "not_json", "transport_error"}

\* The keys of the JSON object a chat request carries: "messages" is read
\* with data["messages"], "model" with data.get.
ChatBodies == {{"model", "messages"}, {"messages"}, {"model"}}

chat(data, result) ==
    IF api_key = <<>>
    THEN [op |-> "chat", seq |-> next_seq, status |-> 200, detail |-> "error",
          error |-> "BLACKBOX_API_KEY not configured"]
    ELSE IF "messages" \notin data THEN Raised("chat", "KeyError")
    ELSE IF result = "transport_error" THEN Raised("chat", "httpx.HTTPError")
    ELSE IF result = "not_json" THEN Raised("chat", "JSONDecodeError")
    ELSE IF result = "json_array" THEN Raised("chat", "TypeError")
    ELSE IF result = "content"
    THEN [op |-> "chat", seq |-> next_seq, status |-> 200, detail |-> "response",
          response |-> result]
    ELSE [op |-> "chat", seq |-> next_seq, status |-> 200, detail |-> "error",
          error |-> "Invalid response from API", details |-> result]

Chat(data, result) ==
    /\ reqno < MaxOps
    /\ reqno' = reqno + 1
    /\ req' = [op |-> "chat", data |-> data, result |-> result]
    /\ resp' = chat(data, result)
    /\ UNCHANGED <<cache, log, evicted, dropped, fs, tmp_files, inflight, api_key, uploads>>

\* ------------------------------------------------------------ upload_epub
JSONResponse(status_code, content) ==
    [op |-> "upload_epub", seq |-> next_seq, status |-> status_code, detail |-> content]

accepted_any(filename) == TRUE

accepted(filename) == endswith(filename, <<DOT, EPUB>>)

base_name(filename) == splitext_root(filename)

book_folder_id(filename) == base_name(filename) \o <<DATA>>

output_dir(filename) == join(<<BOOKS_DIR, book_folder_id(filename)>>)

\* The request arrives.  A name without the extension is answered at once.
\* Otherwise the temporary file is created (or its creation fails) and the
\* handler waits for the body of the upload.  Temporary files get fresh
\* names, here the number of the upload.
UploadBegin(filename, created) ==
    /\ reqno < MaxOps
    /\ reqno' = reqno + 1
    /\ IF ~accepted(filename)
       THEN /\ resp' = JSONResponse(400, "Only .epub files are allowed")
            /\ req' = [op |-> "upload_epub", filename |-> filename]
            /\ UNCHANGED <<tmp_files, inflight, uploads>>
       ELSE IF ~created
       THEN /\ resp' = JSONResponse(500, "OSError")
            /\ req' = [op |-> "upload_epub", filename |-> filename]
            /\ UNCHANGED <<tmp_files, inflight, uploads>>
       ELSE /\ uploads < MaxUploads
            /\ tmp_files' = tmp_files \cup {uploads + 1}
            /\ inflight' = inflight \cup {[filename |-> filename, tmp_path |-> uploads + 1]}
            /\ uploads' = uploads + 1
            /\ UNCHANGED <<resp, req>>
    /\ UNCHANGED <<cache, log, evicted, dropped, fs, api_key>>

\* The output folder after process_epub and save_to_pickle ran on it, or after
\* one of them raised part-way.
set_artifact(fsx, dir_path, art) == (location(dir_path) :> art) @@ fsx

\* cache_clear is the last statement of the try block: it runs when no
\* statement before it raised.
cache_cleared_on_any_outcome(c, outcome) == cache_clear(c)

cache_after_upload(c, outcome) == IF outcome = "ok" THEN cache_clear(c) ELSE c

\* The rest of the handler, run without suspension once the body is read.
\* outcome names the first statement that raises, "ok" when none does.
UploadOutcomes == {"ok", "read", "process_epub", "save_to_pickle", "unlink"}

UploadFinish(u, book_obj, outcome) ==
    /\ u \in inflight
    /\ inflight' = inflight \ {u}
    /\ fs' = CASE outcome \in {"read", "process_epub"} -> fs
               [] outcome = "save_to_pickle" ->
                      set_artifact(fs, output_dir(u.filename), CorruptPickle)
               [] outcome \in {"unlink", "ok"} ->
                      set_artifact(fs, output_dir(u.filename), book_obj)
    /\ tmp_files' = IF outcome = "ok" THEN tmp_files \ {u.tmp_path} ELSE tmp_files
    /\ cache' = cache_after_upload(cache, outcome)
    /\ dropped' = IF outcome = "ok" THEN keys_of(cache) ELSE dropped
    /\ log' = IF outcome = "ok" THEN <<>> ELSE log
    /\ evicted' = IF outcome = "ok" THEN <<>> ELSE evicted
    /\ req' = [op |-> "upload_epub", filename |-> u.filename]
    /\ resp' = IF outcome = "ok"
               THEN [op |-> "upload_epub", seq |-> next_seq, status |-> 200,
                     detail |-> "success", title |-> book_obj.title,
                     id |-> book_folder_id(u.filename)]
               ELSE JSONResponse(500, outcome)
    /\ UNCHANGED <<reqno, api_key, uploads>>

\* ------------------------------------------------------------ specification
Init ==
    /\ cache = <<>>
    /\ dropped = {}
    /\ log = <<>>
    /\ evicted = <<>>
    /\ fs = initial_fs(NumBooks)
    /\ tmp_files = {}
    /\ inflight = {}
    /\ resp = [op |-> "none", seq |-> 0, status |-> 0, detail |-> "none"]
    /\ req = [op |-> "none"]
    /\ reqno = 0
    /\ api_key = <<"key">>
    /\ uploads = 0

Next ==
    \/ \E book_id \in BookIds, chapter_index \in ChapterIndexes :
           ReadChapter(book_id, chapter_index)
    \/ RedirectToFirstChapter(folder(1))
    \/ \E items \in listdir_orders(fs) : LibraryView(items)
    \/ \E exists \in BOOLEAN : ServeImage(folder(1), <<"x">>, exists)
    \/ \E result \in {"content", "no_choices"} : Chat({"model", "messages"}, result)
    \/ \E filename \in FileNames, created \in BOOLEAN : UploadBegin(filename, created)
    \/ \E u \in inflight, book_obj \in Contents, outcome \in UploadOutcomes :
           UploadFinish(u, book_obj, outcome)

Spec == Init /\ [][Next]_vars

\* The reader alone, over books of every spine length 0..MaxSpine and a
\* corrupt one, and over every index from -1 to one past the longest spine.
NavIds == {folder(2)} \cup {folder(k) : k \in 4..(4 + MaxSpine)}

NavIndexes == -1..(MaxSpine + 1)

NextNav ==
    \/ \E book_id \in NavIds, chapter_index \in NavIndexes :
           ReadChapter(book_id, chapter_index)
    \/ \E book_id \in NavIds : RedirectToFirstChapter(book_id)

SpecNav == Init /\ [][NextNav]_vars

\* The image route alone, answering one request, over every string of at
\* most MaxLen characters from an ordinary character, the dot and the
\* separator, and over longer names of the same make; the route lets through
\* those that are path parameters.
UntrustedNames ==
    StringsUpTo({"a", DOT, SEP}, MaxLen)
        \cup {<<DOT, DOT, SEP, DOT, DOT, SEP, "etc">>, <<DOT, DOT, SEP, "secret">>,
              <<SEP, "abs", SEP, "path">>, <<"Sample", DATA>>, <<"cover", DOT, "jpg">>}

NextImage ==
    /\ reqno = 0
    /\ \E book_id \in UntrustedNames, image_name \in UntrustedNames, exists \in BOOLEAN :
           ServeImage(book_id, image_name, exists)

SpecImage == Init /\ [][NextImage]_vars

\* The chat proxy alone, with and without a configured credential, over every
\* request body and every answer of the Completion API.
InitChat ==
    /\ cache = <<>>
    /\ dropped = {}
    /\ log = <<>>
    /\ evicted = <<>>
    /\ fs = initial_fs(NumBooks)
    /\ tmp_files = {}
    /\ inflight = {}
    /\ resp = [op |-> "none", seq |-> 0, status |-> 0, detail |-> "none"]
    /\ req = [op |-> "none"]
    /\ reqno = 0
    /\ api_key \in {<<>>, <<"key">>}
    /\ uploads = 0

NextChat == \E data \in ChatBodies, result \in ApiResults : Chat(data, result)

SpecChat == InitChat /\ [][NextChat]_vars

\* ------------------------------------------------------------ the cache's history
key_seq(c) == [i \in 1..Len(c) |-> c[i].key]

without(s, x) == SelectSeq(s, LAMBDA y : y # x)

\* The keys asked for since the last clear, each once, ordered by the time
\* they were last asked for (the most recent last).
RECURSIVE recency(_)
recency(l) ==
    IF l = <<>> THEN <<>>
    ELSE LET k == l[Len(l)].key
         IN  Append(without(recency(SubSeq(l, 1, Len(l) - 1)), k), k)

last_n(s, n) == IF Len(s) <= n THEN s ELSE SubSeq(s, Len(s) - n + 1, Len(s))

first_asked(k) == CHOOSE i \in 1..Len(log) : log[i].key = k /\ \A j \in 1..(i - 1) : log[j].key # k

disk_reads(k) == Cardinality({i \in 1..Len(log) : log[i].key = k /\ ~log[i].hit})

evictions(k) == Cardinality({i \in 1..Len(evicted) : evicted[i] = k})

\* ------------------------------------------------------------ claims
\* C1: after any sequence of chapter reads, listings and uploads the cache of
\* load_book_cached holds at most 10 entries.
C1_CacheBounded == Len(cache) <= 10

\* A full cache from which the LRU policy has already dropped an entry.
C1_Witness == Len(cache) = 10 /\ evicted # <<>>

\* C2: the cache always holds exactly the (at most 10) identities asked for
\* most recently since the last clear, ordered by the time each was last asked
\* for, where a hit counts as much as an insert; so the entry an insert into a
\* full cache removes is the least recently used one, and after 11 distinct
\* identities the first is gone and the other 10 are kept.
C2_EvictsLeastRecentlyUsed == key_seq(cache) = last_n(recency(log), 10)

\* An identity that was hit outlived the eviction of an identity first asked
\* for after it.
C2_Witness ==
    \E i \in 1..Len(evicted), k \in keys_of(cache) :
        /\ \E j \in 1..Len(log) : log[j].key = k /\ log[j].hit
        /\ first_asked(k) < first_asked(evicted[i])

\* C3 (as claimed): a chapter read of an identity that is not cached and whose
\* artifact is missing or unreadable leaves the cache as it was; nothing is
\* stored for the identity and nothing is evicted.
C3_NegativeResultNotCached ==
    [][\A book_id \in BookIds, chapter_index \in ChapterIndexes :
          (/\ ReadChapter(book_id, chapter_index)
           /\ lru_find(cache, book_id) = {}
           /\ ~truthy(load_book(fs, book_id)))
          => cache' = cache /\ evicted' = evicted]_vars

\* What load_book_cached is about to return for an identity.
lookup(book_id) == load_book_cached(cache_state, fs, book_id).val

\* C4: a chapter read of a loaded book with n >= 1 chapters at an index i with
\* 0 <= i < n succeeds with chapter spine[i]; prev_idx is absent iff i = 0 and
\* is i-1 otherwise; next_idx is absent iff i = n-1 and is i+1 otherwise.
C4_NavigationInRange ==
    [][\A book_id \in NavIds, i \in NavIndexes :
          LET book == lookup(book_id)
              n == Len(book.spine)
          IN  (/\ ReadChapter(book_id, i)
               /\ truthy(book) /\ n >= 1 /\ 0 <= i /\ i < n)
              => /\ resp'.status = 200
                 /\ resp'.current_chapter = book.spine[i + 1]
                 /\ (resp'.prev_idx = NoIndex) <=> (i = 0)
                 /\ i > 0 => resp'.prev_idx = {i - 1}
                 /\ (resp'.next_idx = NoIndex) <=> (i = n - 1)
                 /\ i < n - 1 => resp'.next_idx = {i + 1}]_vars

\* A read of the last chapter of a book of at least two chapters succeeded.
C4_Witness ==
    /\ req.op = "read_chapter" /\ resp.status = 200
    /\ Len(resp.book.spine) >= 2
    /\ resp.chapter_index = Len(resp.book.spine) - 1
    /\ resp.next_idx = NoIndex /\ resp.prev_idx # NoIndex

\* C5: a chapter read of an identity for which there is no book (none cached,
\* none loadable) fails with "Book not found" whatever the index; a chapter
\* read of a book of n chapters at an index i < 0 or i >= n fails with
\* "Chapter not found" and returns no chapter.
C5_NotFoundErrors ==
    [][\A book_id \in NavIds, i \in NavIndexes :
          LET book == lookup(book_id)
          IN  ReadChapter(book_id, i) =>
                 /\ ~truthy(book) =>
                        resp'.status = 404 /\ resp'.detail = "Book not found"
                 /\ (truthy(book) /\ (i < 0 \/ i >= Len(book.spine))) =>
                        /\ resp'.status = 404 /\ resp'.detail = "Chapter not found"
                        /\ "current_chapter" \notin DOMAIN resp']_vars

\* A read at a negative index of an identity whose pickle is corrupt was
\* answered "Book not found".
C5_Witness ==
    /\ req.op = "read_chapter" /\ req.chapter_index < 0
    /\ req.book_id = folder(2)
    /\ resp.status = 404 /\ resp.detail = "Book not found"

\* C6 (as claimed): the path serve_image builds is root/<c1>/images/<c2> with
\* c1 and c2 single components that are not "", "." or "..", so it names a
\* location under the store root.
single_component(c) == c # <<>> /\ c # <<DOT>> /\ c # <<DOT, DOT>> /\ rfind(c, SEP) = 0

C6_ImagePathConfined ==
    (req.op = "serve_image" /\ resp.status = 200) =>
        LET parts == components(resp.path)
        IN  /\ Len(parts) = 5
            /\ <<parts[1], parts[2]>> = components(BOOKS_DIR)
            /\ single_component(parts[3])
            /\ parts[4] = <<IMAGES>>
            /\ single_component(parts[5])
            /\ IsPrefix(BooksLoc, location(resp.path))

\* A response was sent in this step, to a request of kind op.
answered(op) == resp'.seq # resp.seq /\ req'.op = op

asked_since_clear(k) == \E j \in 1..Len(log) : log[j].key = k

\* C7: cache_clear drops every entry at once: the cache is empty right after
\* a successful upload, every entry found in it later was read from the disk
\* after the clear, and the first chapter read of an identity the clear
\* removed reads the disk and answers from the artifact as it is then.
C7_ClearThenFreshRead ==
    /\ [](\A k \in keys_of(cache) :
              asked_since_clear(k) /\ ~log[first_asked(k)].hit)
    /\ [][/\ (answered("upload_epub") /\ resp'.status = 200) => cache' = <<>>
          /\ (/\ answered("read_chapter")
              /\ req'.book_id \in dropped
              /\ ~asked_since_clear(req'.book_id))
             => /\ log' = Append(log, [key |-> req'.book_id, hit |-> FALSE])
                /\ resp' = read_chapter("read_chapter", load_book(fs, req'.book_id),
                                        req'.book_id, req'.chapter_index)]_vars

\* The first book was cached, was ingested again with other content, and the
\* read that followed the clear returned the new content.
C7_Witness ==
    /\ req.op = "read_chapter" /\ req.book_id = folder(1) /\ resp.status = 200
    /\ folder(1) \in dropped
    /\ resp.book.title # initial_artifact(1).title
    /\ log = <<[key |-> folder(1), hit |-> FALSE]>>

\* C8: the cache is emptied by the step that answers an upload with success
\* and by no other: an upload that is rejected or fails leaves the cache as
\* it was, a suspended upload leaves it as it was, and no other request
\* empties it or makes it smaller.
C8_ClearedOnlyBySuccessfulUpload ==
    [][IF answered("upload_epub") /\ resp'.status = 200 THEN cache' = <<>>
       ELSE IF answered("upload_epub") \/ resp' = resp THEN cache' = cache
       ELSE Len(cache') >= Len(cache)]_vars

\* An upload failed while the cache held entries.
C8_Witness ==
    /\ req.op = "upload_epub" /\ resp.status = 500 /\ resp.detail = "save_to_pickle"
    /\ cache # <<>>

\* What a catalogue listing would answer now, enumerating the store in order items.
listing(items) == scan(cache_state, <<>>, fs, items).books

\* C9 (as claimed): right after an upload answered success with id X and
\* title T, a listing has an entry with id X and title T and
\* load_book_cached(X) returns the book of that title.
C9_UploadedBookVisible ==
    (req.op = "upload_epub" /\ resp.status = 200) =>
        /\ \A items \in listdir_orders(fs) :
               \E i \in 1..Len(listing(items)) :
                   /\ listing(items)[i].id = resp.id
                   /\ listing(items)[i].title = resp.title
        /\ truthy(lookup(resp.id)) /\ lookup(resp.id).title = resp.title

well_formed(k) == truthy(load_book(fs, k))

\* C10 (as claimed): between two cache clears the artifact of an identity
\* with a well-formed artifact is read from the disk at most once.
C10_ReadAtMostOnce ==
    \A k \in {log[j].key : j \in 1..Len(log)} : well_formed(k) => disk_reads(k) <= 1

\* C10 (amended): between two cache clears the artifact of an identity with a
\* well-formed artifact is read once when first asked for and once more after
\* each eviction of the identity; a chapter read of an identity that is in
\* the cache reads nothing from the disk and answers with the cached book,
\* and an entry that stays in the cache keeps its book.
C10_ReadOncePerResidence ==
    /\ [](\A k \in {log[j].key : j \in 1..Len(log)} :
              well_formed(k) => disk_reads(k) <= 1 + evictions(k))
    /\ [][/\ (answered("read_chapter") /\ lru_find(cache, req'.book_id) # {})
             => LET i == CHOOSE i \in lru_find(cache, req'.book_id) : TRUE
                IN  /\ log' = Append(log, [key |-> req'.book_id, hit |-> TRUE])
                    /\ resp' = read_chapter("read_chapter", cache[i].val,
                                            req'.book_id, req'.chapter_index)
          /\ \A i \in 1..Len(cache), j \in 1..Len(cache') :
                 (cache[i].key = cache'[j].key /\ evicted' = evicted)
                 => cache[i].val = cache'[j].val]_vars

\* A book with a well-formed artifact was read from the disk a second time
\* since the last clear, after the LRU policy had evicted it.
C10_Witness ==
    \E k \in keys_of(cache) :
        well_formed(k) /\ disk_reads(k) = 2 /\ evictions(k) = 1

\* C11: a catalogue listing completes; it asks load_book_cached once for each
\* name of the store root that ends in "_data" and is a directory, in the
\* order listed, and for no other name (a call answered from the cache
\* returns the book cached before the listing, any other the book loaded from
\* the disk); it returns, in that order, one entry
\* {id, title, author = authors joined by ", ", chapters = len(spine)} for each
\* of them for which the call returned a book, and none for the others, which
\* neither fail the listing nor remove an entry of another book.
C11_ListingSkipsAbsent ==
    [][answered("library_view") =>
          LET items == req'.listdir
              cand == SelectSeq(items, LAMBDA x :
                          endswith(x, <<DATA>>) /\ isdir(fs, Append(BooksLoc, x)))
              new == SubSeq(log', Len(log) + 1, Len(log'))
              asked == {new[j].key : j \in 1..Len(new)}
              got == [x \in asked |->
                         IF \E j \in 1..Len(new) : new[j].key = x /\ new[j].hit
                         THEN cache[CHOOSE i \in 1..Len(cache) : cache[i].key = x].val
                         ELSE load_book(fs, x)]
              books == resp'.books
          IN  /\ resp'.status = 200
              /\ [j \in 1..Len(new) |-> new[j].key] = cand
              /\ \A j \in 1..Len(new) :
                     new[j].hit => \E i \in 1..Len(cache) : cache[i].key = new[j].key
              /\ [i \in 1..Len(books) |-> books[i].id]
                     = SelectSeq(cand, LAMBDA x : truthy(got[x]))
              /\ \A i \in 1..Len(books) :
                     LET b == got[books[i].id]
                     IN  books[i] = [id |-> books[i].id,
                                     title |-> b.title,
                                     author |-> join_authors(b.authors),
                                     chapters |-> Len(b.spine)]]_vars

\* A listing returned the books on both sides of the folder with the corrupt
\* pickle and of the folder without one, skipped those two, the folder not
\* named "*_data" and the plain file, and joined two authors.
C11_Witness ==
    /\ req.op = "library_view" /\ resp.status = 200
    /\ {folder(2), folder(3), other_folder} \cup RootFiles
           \subseteq {req.listdir[i] : i \in 1..Len(req.listdir)}
    /\ {folder(1), folder(4)} \subseteq {resp.books[i].id : i \in 1..Len(resp.books)}
    /\ \A i \in 1..Len(resp.books) :
           /\ resp.books[i].id \notin {folder(2), folder(3), other_folder} \cup RootFiles
           /\ resp.books[i].id = folder(1) => resp.books[i].author = <<"A", ", ", "B">>

\* C12 (as claimed): a temporary file that exists belongs to an upload that
\* has not returned yet; every upload that returned, with success or with an
\* error, has deleted the temporary file it created.
C12_TempFileRemoved == \A t \in tmp_files : \E u \in inflight : u.tmp_path = t

\* C13 (as claimed): a request for a book without a chapter index is answered
\* as the chapter read of that book at index 0 is: the same page data on
\* success, the same "Book not found" or "Chapter not found" error otherwise.
C13_BareReadIsChapterZero ==
    [][\A book_id \in NavIds :
          RedirectToFirstChapter(book_id) =>
              resp' = read_chapter("redirect_to_first_chapter", lookup(book_id), book_id, 0)]_vars

\* C14 (as claimed): the artifact path load_book_cached reads for the book_id
\* of a chapter read is root/<c>/book.pkl with c a single component that is
\* not "", "." or ".."; the folder id an accepted upload derives from its file
\* name (once the handler got as far as building it) is such a component and
\* its output folder is that direct child of the store root, the id returned
\* on success is that id, and every book folder on disk is a direct child of
\* the root.
C14_PathsUnderRoot ==
    /\ req.op = "read_chapter" =>
           LET parts == components(join(<<BOOKS_DIR, req.book_id, <<PKL>>>>))
           IN  /\ Len(parts) = 4
               /\ <<parts[1], parts[2]>> = components(BOOKS_DIR)
               /\ single_component(parts[3])
               /\ parts[4] = <<PKL>>
    /\ (/\ req.op = "upload_epub" /\ accepted(req.filename)
        /\ resp.detail \in {"process_epub", "save_to_pickle", "unlink", "success"}) =>
           /\ single_component(book_folder_id(req.filename))
           /\ location(output_dir(req.filename))
                  = Append(BooksLoc, book_folder_id(req.filename))
    /\ (req.op = "upload_epub" /\ resp.status = 200) =>
           resp.id = book_folder_id(req.filename)
    /\ \A loc \in DOMAIN fs : Parent(loc) = BooksLoc

\* C15 (as claimed): with a credential configured and an answer received from
\* the Completion API, chat returns {response: content} when the body has
\* choices[0].message.content and, for a body of any other shape, returns
\* {error: "Invalid response from API", details: body}; it never raises.
C15_ChatNeverRaises ==
    (/\ req.op = "chat" /\ api_key # <<>> /\ "messages" \in req.data
     /\ req.result # "transport_error") =>
        /\ resp.status = 200
        /\ IF req.result = "content"
           THEN resp.detail = "response" /\ resp.response = req.result
           ELSE /\ resp.detail = "error"
                /\ resp.error = "Invalid response from API"
                /\ resp.details = req.result

\* C16: an upload whose file name does not end in ".epub" is answered 400 at
\* once: no temporary file is created, the handler does not go on to read
\* the body or to run the ingestion (no upload is left waiting), the book
\* folders on disk are as before and the cache is as before.
C16_RejectedUploadDoesNothing ==
    [][\A filename \in FileNames, created \in BOOLEAN :
          (UploadBegin(filename, created) /\ ~endswith(filename, <<DOT, EPUB>>))
          => /\ answered("upload_epub")
             /\ resp'.status = 400
             /\ resp'.detail = "Only .epub files are allowed"
             /\ tmp_files' = tmp_files
             /\ inflight' = inflight
             /\ uploads' = uploads
             /\ fs' = fs
             /\ cache' = cache /\ log' = log /\ evicted' = evicted]_vars

\* An upload named "n.txt" was answered 400 while the cache held entries and
\* another upload was waiting for its body.
C16_Witness ==
    /\ req.op = "upload_epub" /\ req.filename = <<"n", DOT, "txt">>
    /\ resp.status = 400
    /\ cache # <<>> /\ inflight # {}
    /\ Cardinality(tmp_files) = Cardinality(inflight)

\* C17 (as claimed): whenever no upload is mid-execution, every cache entry
\* holds what load_book_cached would compute for its identity from the disk
\* as it is now.
C17_CacheMatchesDisk ==
    inflight = {} =>
        \A i \in 1..Len(cache) : cache[i].val = load_book(fs, cache[i].key)

\* The indexes visited by reading chapter i of a book and following next_idx
\* from each successful read, for at most `steps` reads.
RECURSIVE follow_next(_, _, _, _)
follow_next(book, book_id, i, steps) ==
    LET r == read_chapter("read_chapter", book, book_id, i)
    IN  IF steps = 0 \/ r.status # 200 THEN <<>>
        ELSE IF r.next_idx = NoIndex THEN <<i>>
        ELSE <<i>> \o follow_next(book, book_id, CHOOSE j \in r.next_idx : TRUE, steps - 1)

\* C18: after a successful chapter read of a book of n chapters (so n >= 1)
\* at index i, a read of the same book at the returned prev_idx or next_idx
\* succeeds; the read at prev_idx returns next_idx = i and the read at
\* next_idx returns prev_idx = i; and following next_idx from index 0 visits
\* 0, 1, ..., n-1 in this order, each once, and stops at n-1, whose read
\* returns no next_idx.
C18_NavigationClosed ==
    (req.op = "read_chapter" /\ resp.status = 200) =>
        LET book == resp.book
            n == Len(book.spine)
            i == resp.chapter_index
            read(j) == read_chapter("read_chapter", book, req.book_id, j)
        IN  /\ n >= 1
            /\ \A j \in resp.prev_idx \cup resp.next_idx : read(j).status = 200
            /\ \A p \in resp.prev_idx : read(p).next_idx = {i}
            /\ \A q \in resp.next_idx : read(q).prev_idx = {i}
            /\ follow_next(book, req.book_id, 0, n + 1) = [k \in 1..n |-> k - 1]
            /\ read(n - 1).status = 200 /\ read(n - 1).next_idx = NoIndex

\* A read in the middle of a book of at least three chapters succeeded, with
\* both a previous and a next index.
C18_Witness ==
    /\ req.op = "read_chapter" /\ resp.status = 200
    /\ Len(resp.book.spine) >= 3
    /\ resp.prev_idx # NoIndex /\ resp.next_idx # NoIndex

====
